---- MODULE Spec2Model ----
(***************************************************************************)
(* A model of flask_openapi3: the OpenAPI application object (openapi.py), *)
(* the route decorators (scaffold.py) and the translation helpers          *)
(* (utils.py).                                                             *)
(*                                                                         *)
(* Strings whose characters matter (rules, names, operation ids) are       *)
(* sequences of one-character strings.  An optional value (Python None or  *)
(* a value) is a sequence of length 0 or 1.  A dict is a function.         *)
(***************************************************************************)
EXTENDS Integers, Sequences, FiniteSets, TLC

VARIABLES
    responses,                \* OpenAPI.responses (application level)
    validation_error_status,  \* OpenAPI.validation_error_status
    paths,                    \* OpenAPI.paths: uri -> PathItem
    tags,                     \* OpenAPI.tags: list of Tag
    tag_names,                \* OpenAPI.tag_names: list of str
    components_schemas,       \* OpenAPI.components_schemas: name -> Schema
    spec_json,                \* OpenAPI.spec_json ({} until api_doc builds it)
    url_map,                  \* Flask url rules added by add_url_rule
    ret                       \* the last call: its arguments and its outcome

vars == <<responses, validation_error_status, paths, tags, tag_names,
          components_schemas, spec_json, url_map, ret>>

appVars == <<responses, validation_error_status, paths, tags, tag_names,
             components_schemas, spec_json, url_map>>

(***************************************************************************)
(* Bounds of the model.                                                    *)
(***************************************************************************)
MaxSegs == 3       \* segments of a generated Flask rule
MaxPathChars == 2  \* characters after the leading "/" of an operation-id path
MaxNameLen == 2    \* characters of a handler name
MaxUnion == 3      \* members of a body union

(***************************************************************************)
(* Generic helpers.                                                        *)
(***************************************************************************)
None == <<>>
Some(v) == <<v>>

EmptyDict == <<>>

UpdateMissing(d1, d2) ==
    [k \in (DOMAIN d1) \cup (DOMAIN d2) |-> IF k \in DOMAIN d1 THEN d1[k] ELSE d2[k]]

\* dict.update: the entries of d2 replace or extend those of d1
Update(d1, d2) ==
    [k \in (DOMAIN d1) \cup (DOMAIN d2) |-> IF k \in DOMAIN d2 THEN d2[k] ELSE d1[k]]

\* dict.get(key) with None as the default
Get(d, k) == IF k \in DOMAIN d THEN Some(d[k]) ELSE None

Range(s) == {s[i] : i \in DOMAIN s}

SeqsUpTo(S, n) == UNION {[1..k -> S] : k \in 0..n}

RECURSIVE FoldSeq(_, _, _)
FoldSeq(F(_, _), acc, s) ==
    IF s = <<>> THEN acc ELSE FoldSeq(F, F(acc, Head(s)), Tail(s))

\* a dict whose order of insertion matters: a sequence of <<key, value>>
OKeys(d) == {d[i][1] : i \in DOMAIN d}
OPut(d, kv) ==
    IF kv[1] \in OKeys(d)
    THEN [i \in DOMAIN d |-> IF d[i][1] = kv[1] THEN kv ELSE d[i]]
    ELSE Append(d, kv)
OUpdate(d1, d2) == FoldSeq(OPut, d1, d2)

RECURSIVE Concat(_)
Concat(ss) == IF ss = <<>> THEN <<>> ELSE Head(ss) \o Concat(Tail(ss))

(***************************************************************************)
(* Characters.  \w of Python's re is [a-zA-Z0-9_] on these characters.     *)
(***************************************************************************)
Letters == {"a", "b", "c", "d", "e", "f", "g", "h", "i", "l", "n", "o", "p", "s",
            "t", "u", "x", "y",
            "A", "B", "C", "D", "E", "G", "H", "L", "N", "O", "P", "S", "T", "U"}
WordChars == Letters \cup {"_"}

IsWord(c) == c \in WordChars

\* str.lower on one character
LowerChar(c) ==
    CASE c = "A" -> "a" [] c = "B" -> "b" [] c = "C" -> "c" [] c = "D" -> "d"
      [] c = "E" -> "e" [] c = "G" -> "g" [] c = "H" -> "h" [] c = "L" -> "l"
      [] c = "N" -> "n" [] c = "O" -> "o" [] c = "P" -> "p" [] c = "S" -> "s"
      [] c = "T" -> "t" [] c = "U" -> "u" [] OTHER -> c

Lower(s) == [i \in DOMAIN s |-> LowerChar(s[i])]

\* re.sub(pattern of one character class, "_", s)
SubChars(s, Keep(_)) == [i \in DOMAIN s |-> IF Keep(s[i]) THEN s[i] ELSE "_"]

\* str.replace(old, new) for one-character old and new
Replace(s, old, new) == [i \in DOMAIN s |-> IF s[i] = old THEN new ELSE s[i]]

(***************************************************************************)
(* utils.py: route conversion.                                             *)
(***************************************************************************)
\* length of the longest prefix of s made of characters other than "<", ":"
RECURSIVE RunLen(_)
RunLen(s) ==
    IF s = <<>> \/ Head(s) \in {"<", ":"} THEN 0 ELSE 1 + RunLen(Tail(s))

\* re.sub(r"<([^<:]+:)?", "{", s): at each "<" the optional group takes the
\* longest run of characters other than "<" and ":" when that run is not
\* empty and is followed by ":"; the match is replaced by "{"
RECURSIVE SubOpen(_)
SubOpen(s) ==
    IF s = <<>> THEN <<>>
    ELSE IF Head(s) # "<" THEN <<Head(s)>> \o SubOpen(Tail(s))
    ELSE LET rest == Tail(s)
             n == RunLen(rest)
             grp == n >= 1 /\ Len(rest) > n /\ rest[n + 1] = ":"
         IN <<"{">> \o SubOpen(IF grp THEN SubSeq(rest, n + 2, Len(rest)) ELSE rest)

\* OpenAPI._do_decorator, the uri it computes for a rule:
\* re.sub(r"<([^<:]+:)?", "{", rule).replace(">", "}")
DoDecoratorUri(rule) == Replace(SubOpen(rule), ">", "}")

\* str.rstrip("/") and str.lstrip("/")
RECURSIVE RStripSlash(_)
RStripSlash(s) ==
    IF s # <<>> /\ s[Len(s)] = "/" THEN RStripSlash(SubSeq(s, 1, Len(s) - 1)) ELSE s

RECURSIVE LStripSlash(_)
LStripSlash(s) == IF s # <<>> /\ Head(s) = "/" THEN LStripSlash(Tail(s)) ELSE s

\* parse_rule(rule, url_prefix): url_prefix is None or a string
parse_rule(rule, url_prefix) ==
    LET trail_slash == rule # <<>> /\ rule[Len(rule)] = "/"
        prefixed == url_prefix # None /\ url_prefix[1] # <<>>
        uri0 == IF prefixed
                THEN RStripSlash(url_prefix[1]) \o <<"/">> \o LStripSlash(rule)
                ELSE rule
        uri1 == IF ~trail_slash THEN RStripSlash(uri0) ELSE uri0
    IN Replace(SubOpen(uri1), ">", "}")

(***************************************************************************)
(* utils.py: operation ids and schema names.                               *)
(***************************************************************************)
get_operation_id_for_path(name, path, method) ==
    SubChars(name \o path, IsWord) \o <<"_">> \o Lower(method)

NormKeep(c) == IsWord(c) \/ c \in {".", "-"}

normalize_name(name) == SubChars(name, NormKeep)

(***************************************************************************)
(* Flask rules as werkzeug reads them: a sequence of parts, each a static  *)
(* character or a variable <name> or <converter:name>, where the converter *)
(* may carry arguments.                                                    *)
(***************************************************************************)
StaticChars == {"/", "a", ">"}
Converters == {<<>>, <<"i">>, <<"y", "(", ":", ")">>}
VarNames == {<<"x">>}

StaticPart(c) == [kind |-> "static", text |-> <<c>>]
VarPart(conv, name) == [kind |-> "var", conv |-> conv, name |-> name]

RuleParts ==
    {StaticPart(c) : c \in StaticChars}
        \cup {VarPart(cv, n) : cv \in Converters, n \in VarNames}

\* the rule string of a part
RenderPart(p) ==
    IF p.kind = "static" THEN p.text
    ELSE <<"<">> \o (IF p.conv = <<>> THEN <<>> ELSE p.conv \o <<":">>)
             \o p.name \o <<">">>

\* a rule starts with a slash
RenderRule(ps) == <<"/">> \o Concat([i \in DOMAIN ps |-> RenderPart(ps[i])])

(***************************************************************************)
(* Pydantic models as the translation reads them: the class name, the      *)
(* title of the generated schema (empty when the model overrides it with   *)
(* ""), model_config["openapi_extra"], and the names of the nested models  *)
(* listed under $defs, in their order.                                     *)
(***************************************************************************)
AppJson == <<"application", "/", "json">>
DogJson == <<"application", "/", "vnd.dog+", "json">>
TextCsv == <<"text", "/", "csv">>
TextJson == <<"text", "/", "json">>

StringSchema == [type |-> "string"]
BinarySchema == [type |-> "string", format |-> "binary"]

Model(name, title, extra, defs) ==
    [name |-> name, title |-> title, openapi_extra |-> extra, defs |-> defs]

ModelA == Model(<<"A">>, <<"A">>, EmptyDict, <<>>)
ModelAB == Model(<<"A", "B">>, <<"A", "[", "B", "]">>, EmptyDict, <<<<"N">>>>)
ModelA_B_ == Model(<<"A", "_", "B", "_">>, <<>>, EmptyDict, <<>>)
ModelDog == Model(<<"D">>, <<"D">>, [content_type |-> DogJson], <<>>)
ModelCsv == Model(<<"C">>, <<"C">>, [content_type |-> TextCsv], <<>>)
ModelBin ==
    Model(<<"B">>, <<"B">>, [content_type |-> TextCsv, content_schema |-> BinarySchema],
          <<>>)
ModelTextJson == Model(<<"T">>, <<"T">>, [content_type |-> TextJson], <<>>)

ModelN == Model(<<"N">>, <<"N">>, EmptyDict, <<>>)

Models == {ModelA, ModelAB, ModelA_B_, ModelDog, ModelCsv, ModelBin, ModelTextJson}

\* dict.get(key, default)
GetOr(d, k, default) == IF k \in DOMAIN d THEN d[k] ELSE default

\* is_application_json: "application" in content_type and "json" in content_type,
\* a content type being the sequence of its words and separators
is_application_json(content_type) ==
    "application" \in Range(content_type) /\ "json" \in Range(content_type)

\* get_model_schema: the schema pydantic generates for a model in a mode
get_model_schema(model, mode) ==
    [title |-> model.title, of |-> model.name, mode |-> mode, defs |-> model.defs]

\* Schema(**schema) of a model's schema, and of one of its $defs
SchemaOf(schema) == [of |-> schema.of, mode |-> schema.mode]
DefSchemaOf(schema, def) == [of |-> schema.of, mode |-> schema.mode, def |-> def]

Ref(name) == [ref |-> name]
MediaType(schema) == [schema |-> schema]

\* schema.get("title") or _model.__name__
TitleOf(schema, model) == IF schema.title # <<>> THEN schema.title ELSE model.name

(***************************************************************************)
(* utils.py: parse_body.  acc is [content, components_schemas].            *)
(***************************************************************************)
\* for name, value in definitions.items(): components_schemas[name] = ...,
\* the key being normalize_name(name) where the code normalizes it
RECURSIVE StoreDefs(_, _, _, _)
StoreDefs(cs, schema, defs, normalized) ==
    IF defs = <<>> THEN cs
    ELSE LET name == Head(defs)
             key == IF normalized THEN normalize_name(name) ELSE name
         IN StoreDefs(Update(cs, key :> DefSchemaOf(schema, name)),
                      schema, Tail(defs), normalized)

ParseBodyJson(acc, model, content_type) ==
    LET schema == get_model_schema(model, "validation")
        title == normalize_name(TitleOf(schema, model))
        cs1 == Update(acc.components_schemas, title :> SchemaOf(schema))
    IN [content |-> Update(acc.content,
                           content_type :> MediaType(Ref(title))),
        components_schemas |-> StoreDefs(cs1, schema, schema.defs, FALSE)]

ParseBodyOther(acc, model, content_type) ==
    LET content_schema == GetOr(model.openapi_extra, "content_schema", StringSchema)
    IN [acc EXCEPT !.content =
            Update(@, content_type :> MediaType(content_schema))]

ParseBodyNoEarlyReturn(acc, model) ==
    LET content_type == GetOr(model.openapi_extra, "content_type", AppJson)
    IN IF ~is_application_json(content_type)
       THEN ParseBodyJson(ParseBodyOther(acc, model, content_type), model, content_type)
       ELSE ParseBodyJson(acc, model, content_type)

_parse_body(acc, model) ==
    LET content_type == GetOr(model.openapi_extra, "content_type", AppJson)
    IN IF ~is_application_json(content_type)
       THEN ParseBodyOther(acc, model, content_type)
       ELSE ParseBodyJson(acc, model, content_type)

\* a body annotation is one model or a union of models: the sequence of its
\* members (get_args of the union)
parse_body(body) ==
    FoldSeq(_parse_body, [content |-> EmptyDict, components_schemas |-> EmptyDict], body)


(***************************************************************************)
(* utils.py: HTTP_STATUS, the phrases of the statuses the model uses.      *)
(***************************************************************************)
HTTP_STATUS ==
    ("200" :> "OK") @@ ("400" :> "Bad Request") @@ ("422" :> "Unprocessable Entity")

(***************************************************************************)
(* utils.py: get_responses.  A declared response is None, a dict, a model, *)
(* a union of models (the sequence of its members), or a dict with a       *)
(* "model" key and a description, headers and links.  acc is              *)
(* [responses, schemas], the function's _responses and _schemas.           *)
(***************************************************************************)
DeclNone == [kind |-> "none"]
DeclDict(d) == [kind |-> "dict", value |-> d]
DeclModel(ms) == [kind |-> "model", members |-> ms]
DeclSpec(decl, description) ==
    [kind |-> "spec", model |-> decl, description |-> description]

Response(description, content) == [description |-> description, content |-> content]

PutMediaFresh(rs, key, content_type, media_type) ==
    Update(rs, key :> Response(GetOr(HTTP_STATUS, key, ""),
                               Some(content_type :> media_type)))

\* _responses[_key].content[content_type] = media_type, or a new Response
PutMedia(rs, key, content_type, media_type) ==
    IF key \in DOMAIN rs
    THEN [rs EXCEPT ![key].content = Some(Update(@[1], content_type :> media_type))]
    ELSE Update(rs, key :> Response(GetOr(HTTP_STATUS, key, ""),
                                    Some(content_type :> media_type)))

ParseResponseJson(acc, key, model, content_type) ==
    LET schema == get_model_schema(model, "serialization")
        name == normalize_name(TitleOf(schema, model))
        sc1 == Update(acc.schemas, name :> SchemaOf(schema))
    IN [responses |-> PutMedia(acc.responses, key, content_type, MediaType(Ref(name))),
        schemas |-> StoreDefs(sc1, schema, schema.defs, TRUE)]

_parse_response(acc, key, model) ==
    LET content_type == GetOr(model.openapi_extra, "content_type", AppJson)
    IN IF ~is_application_json(content_type)
       THEN [acc EXCEPT !.responses =
                PutMedia(@, key, content_type,
                         MediaType(GetOr(model.openapi_extra, "content_schema",
                                         StringSchema)))]
       ELSE ParseResponseJson(acc, key, model, content_type)

RECURSIVE ParseResponseMembers(_, _, _)
ParseResponseMembers(acc, key, members) ==
    IF members = <<>> THEN acc
    ELSE ParseResponseMembers(_parse_response(acc, key, Head(members)), key,
                              Tail(members))

\* one turn of the loop over responses.items()
GetResponsesStep(acc, item) ==
    LET key == item[1]
        response == item[2]
        spec == response.kind = "spec"
        response_model == IF spec THEN response.model ELSE response
        acc1 ==
            CASE response_model.kind = "none" ->
                   [acc EXCEPT !.responses =
                       Update(@, key :> Response(GetOr(HTTP_STATUS, key, ""), None))]
              [] response_model.kind = "dict" ->
                   [acc EXCEPT !.responses =
                       Update(@, key :>
                           Response(GetOr(response_model.value, "description",
                                          GetOr(HTTP_STATUS, key, "")),
                                    Get(response_model.value, "content")))]
              [] OTHER -> ParseResponseMembers(acc, key, response_model.members)
    IN IF spec /\ response.description # None
       THEN [acc1 EXCEPT !.responses[key].description = response.description[1]]
       ELSE acc1

\* get_responses(responses, components_schemas, operation): the operation and
\* the components_schemas it leaves
get_responses(resps, cs, operation) ==
    LET acc == FoldSeq(GetResponsesStep,
                       [responses |-> EmptyDict, schemas |-> EmptyDict], resps)
    IN [components_schemas |-> Update(cs, acc.schemas),
        operation |-> [operation EXCEPT !.responses = Some(acc.responses)]]

(***************************************************************************)
(* utils.py: parse_and_store_tags and parse_method.                        *)
(***************************************************************************)
Tag(name, description) == [name |-> name, description |-> description]

StoreTagUnchecked(acc, tag) ==
    [tags |-> Append(acc.tags, tag), tag_names |-> Append(acc.tag_names, tag.name)]

\* if tag.name not in tag_names: append the tag and its name
StoreTag(acc, tag) ==
    IF tag.name \notin Range(acc.tag_names)
    THEN [tags |-> Append(acc.tags, tag), tag_names |-> Append(acc.tag_names, tag.name)]
    ELSE acc

\* the lists after the loop of parse_and_store_tags, register_api and
\* register_api_view
StoreTags(new_tags, old_tags, old_tag_names) ==
    FoldSeq(StoreTag, [tags |-> old_tags, tag_names |-> old_tag_names], new_tags)

\* operation.tags = list(set(names)) or ["default"]: the names, in no order
OperationTags(new_tags) ==
    IF new_tags = <<>> THEN {"default"} ELSE {new_tags[i].name : i \in DOMAIN new_tags}

HTTPMethods == {"GET", "POST", "PUT", "DELETE", "PATCH"}

MethodChars(method) ==
    CASE method = "GET" -> <<"G", "E", "T">>
      [] method = "POST" -> <<"P", "O", "S", "T">>
      [] method = "PUT" -> <<"P", "U", "T">>
      [] method = "DELETE" -> <<"D", "E", "L", "E", "T", "E">>
      [] method = "PATCH" -> <<"P", "A", "T", "C", "H">>

\* the PathItem field parse_method sets for a method
MethodField(method) ==
    CASE method = "GET" -> "get" [] method = "POST" -> "post"
      [] method = "PUT" -> "put" [] method = "PATCH" -> "patch"
      [] method = "DELETE" -> "delete"

\* parse_method(uri, method, paths, operation): a PathItem is the function
\* from the fields that are set to their operations
parse_method(uri, method, ps, operation) ==
    IF method \notin HTTPMethods THEN ps
    ELSE IF uri \notin DOMAIN ps
    THEN Update(ps, uri :> (MethodField(method) :> operation))
    ELSE [ps EXCEPT ![uri] = Update(@, MethodField(method) :> operation)]


(***************************************************************************)
(* Python calls.  A signature is the number of parameters that may be      *)
(* given by position and the names that may be given by keyword; a call    *)
(* that gives more positional arguments or another keyword raises          *)
(* TypeError before the callee runs.  Unpacking a tuple into a different   *)
(* number of targets raises ValueError.                                    *)
(***************************************************************************)
Accepts(sig, call) == call.npos <= sig.npos /\ call.kw \subseteq sig.kw

Returned(value) == [kind |-> "return", value |-> value]
Raised(error, at) == [kind |-> "raise", error |-> error, at |-> at]

\* def _do_decorator(self, rule, func, *, tags, ..., method) of OpenAPI
DoDecoratorSig ==
    [npos |-> 2,
     kw |-> {"rule", "func", "tags", "summary", "description", "external_docs",
             "operation_id", "extra_form", "extra_body", "responses",
             "extra_responses", "deprecated", "security", "servers",
             "openapi_extensions", "doc_ui", "method"}]

\* self._do_decorator(rule, func, tags=..., ..., method=...) in the decorators
ScaffoldDoDecoratorCall ==
    [npos |-> 2,
     kw |-> {"tags", "summary", "description", "responses", "extra_responses",
             "body_examples", "security", "deprecated", "operation_id", "doc_ui",
             "method"}]

\* the number of names the decorators unpack the result of _do_decorator into
ScaffoldUnpack == 7

\* def parse_parameters(func, *, components_schemas, operation, ...)
ParseParametersSig ==
    [npos |-> 1,
     kw |-> {"func", "components_schemas", "operation", "request_body_description",
             "request_body_required", "doc_ui"}]

\* parse_parameters(func, extra_form=..., extra_body=..., components_schemas=...,
\* operation=...) and parse_parameters(func, doc_ui=False) in _do_decorator
DocParseParametersCall ==
    [npos |-> 1, kw |-> {"extra_form", "extra_body", "components_schemas", "operation"}]
NoDocParseParametersCall == [npos |-> 1, kw |-> {"doc_ui"}]

\* the number of names _do_decorator unpacks the result of parse_parameters into
DoDecoratorUnpack == 6

\* def get_responses(responses, components_schemas, operation)
GetResponsesSig ==
    [npos |-> 3, kw |-> {"responses", "components_schemas", "operation"}]

\* get_responses(combine_responses, extra_responses, self.components_schemas,
\* operation) in _do_decorator
DoDecoratorGetResponsesCall == [npos |-> 4, kw |-> {}]

(***************************************************************************)
(* utils.py: parse_parameters.  A handler is its name and its annotations; *)
(* an annotation is the sequence of the members of its type (one model, or *)
(* the models of a union); a raw annotation is its mimetypes.              *)
(***************************************************************************)
\* annotations.get(name)
Annotation(func, name) == Get(func.annotations, name)

\* the tuple parse_parameters returns
ParametersTuple(func) ==
    <<Annotation(func, "header"), Annotation(func, "cookie"), Annotation(func, "path"),
      Annotation(func, "query"), Annotation(func, "form"), Annotation(func, "body"),
      Annotation(func, "raw")>>

\* parse_header, parse_cookie, parse_path, parse_query: the parameters of the
\* model, and the schemas of its $defs
ParseIn(st, func, where) ==
    IF Annotation(func, where) = None THEN st
    ELSE LET model == Annotation(func, where)[1][1]
             schema == get_model_schema(model, "validation")
         IN [st EXCEPT
               !.parameters = Append(@, [in |-> where, of |-> model.name]),
               !.components_schemas =
                   Update(@, StoreDefs(EmptyDict, schema, schema.defs, FALSE))]

FormData == <<"multipart", "/", "form-data">>

\* parse_form
parse_form(model) ==
    LET schema == get_model_schema(model, "validation")
        content_type == GetOr(model.openapi_extra, "content_type", FormData)
        title == normalize_name(TitleOf(schema, model))
    IN [content |-> content_type :> MediaType(Ref(title)),
        components_schemas |->
            StoreDefs(title :> SchemaOf(schema), schema, schema.defs, FALSE)]

RequestBody(content) == [content |-> content, required |-> TRUE]

ParseForm(st, func) ==
    IF Annotation(func, "form") = None THEN st
    ELSE LET r == parse_form(Annotation(func, "form")[1][1])
         IN [st EXCEPT !.components_schemas = Update(@, r.components_schemas),
                       !.requestBody = Some(RequestBody(r.content))]

ParseBody(st, func) ==
    IF Annotation(func, "body") = None THEN st
    ELSE LET r == parse_body(Annotation(func, "body")[1])
         IN [st EXCEPT !.components_schemas = Update(@, r.components_schemas),
                       !.requestBody = Some(RequestBody(r.content))]

RawMedia(mimetype) ==
    MediaType([type |-> IF is_application_json(mimetype) THEN "object" ELSE "string"])

ParseRaw(st, func) ==
    IF Annotation(func, "raw") = None THEN st
    ELSE LET mimetypes == Annotation(func, "raw")[1]
         IN [st EXCEPT !.requestBody =
               Some(RequestBody([m \in Range(mimetypes) |-> RawMedia(m)]))]

\* parse_parameters(func, components_schemas=, operation=, doc_ui=): the tuple
\* it returns, and the components_schemas and the operation it leaves
parse_parameters(func, cs, operation, doc_ui) ==
    IF doc_ui = FALSE
    THEN [value |-> ParametersTuple(func), components_schemas |-> cs,
          operation |-> operation]
    ELSE LET st0 == [parameters |-> <<>>, components_schemas |-> cs,
                     requestBody |-> operation.requestBody]
             st1 == ParseIn(ParseIn(ParseIn(ParseIn(st0, func, "header"), func,
                                            "cookie"), func, "path"), func, "query")
             st2 == ParseRaw(ParseBody(ParseForm(st1, func), func), func)
         IN [value |-> ParametersTuple(func),
             components_schemas |-> st2.components_schemas,
             operation |->
                 [operation EXCEPT
                    !.requestBody = st2.requestBody,
                    !.parameters = IF st2.parameters # <<>>
                                   THEN Some(st2.parameters) ELSE @]]


(***************************************************************************)
(* openapi.py: OpenAPI._do_decorator.  c is the call: rule, func, tags,    *)
(* responses, operation_id (None or a value each), doc_ui and method.  app *)
(* is the application's state; the result is the state the call leaves and *)
(* its outcome, an exception leaving what was stored before it was raised. *)
(***************************************************************************)
\* get_operation: the Operation before its fields are filled
NewOperation ==
    [operationId |-> None, tags |-> None, parameters |-> None,
     requestBody |-> None, responses |-> None]

\* deepcopy(self.responses) updated by the route's responses
CombineResponses(app_responses, route_responses) ==
    OUpdate(app_responses, IF route_responses = None THEN <<>> ELSE route_responses[1])

\* operation_id or self.operation_id_callback(name=, path=, method=)
OperationId(c) ==
    IF c.operation_id # None /\ c.operation_id[1] # <<>>
    THEN c.operation_id[1]
    ELSE get_operation_id_for_path(c.func.name, c.rule, MethodChars(c.method))

Leave(app, outcome) ==
    [paths |-> app.paths, tags |-> app.tags, tag_names |-> app.tag_names,
     components_schemas |-> app.components_schemas, outcome |-> outcome]

\* the last lines of the documented branch: the uri, parse_method, return
DocStore(app, c, value, operation) ==
    Leave([app EXCEPT !.paths = parse_method(DoDecoratorUri(c.rule), c.method, @,
                                             operation)],
          Returned(value))

\* get_responses(combine_responses, extra_responses, components_schemas, operation)
DocResponses(app, c, value, gr) ==
    DocStore([app EXCEPT !.components_schemas = gr.components_schemas], c, value,
             gr.operation)

\* what follows the call of parse_parameters, pp being what it gives
DocParsed(app, c, pp) ==
    IF Len(pp.value) # DoDecoratorUnpack
    THEN Leave([app EXCEPT !.components_schemas = pp.components_schemas],
               Raised("ValueError", "parse_parameters"))
    ELSE IF ~Accepts(GetResponsesSig, DoDecoratorGetResponsesCall)
    THEN Leave([app EXCEPT !.components_schemas = pp.components_schemas],
               Raised("TypeError", "get_responses"))
    ELSE DocResponses(app, c, pp.value,
                      get_responses(CombineResponses(app.responses, c.responses),
                                    pp.components_schemas, pp.operation))

\* what follows parse_and_store_tags, the tags being stored in app
DocTagged(app, c, operation) ==
    IF ~Accepts(ParseParametersSig, DocParseParametersCall)
    THEN Leave(app, Raised("TypeError", "parse_parameters"))
    ELSE DocParsed(app, c,
                   parse_parameters(c.func, app.components_schemas, operation, TRUE))

NewTags(c) == IF c.tags = None THEN <<>> ELSE c.tags[1]

DocStoreTags(app, c) ==
    [app EXCEPT !.tags = StoreTags(NewTags(c), app.tags, app.tag_names).tags,
                !.tag_names = StoreTags(NewTags(c), app.tags, app.tag_names).tag_names]

DoDecoratorDoc(app, c) ==
    DocTagged(DocStoreTags(app, c), c,
              [NewOperation EXCEPT !.operationId = Some(OperationId(c)),
                                   !.tags = Some(OperationTags(NewTags(c)))])

DoDecoratorNoDoc(app, c) ==
    LET pp == parse_parameters(c.func, EmptyDict, NewOperation, FALSE)
    IN IF ~Accepts(ParseParametersSig, NoDocParseParametersCall)
       THEN Leave(app, Raised("TypeError", "parse_parameters"))
       ELSE IF Len(pp.value) # DoDecoratorUnpack
       THEN Leave(app, Raised("ValueError", "parse_parameters"))
       ELSE Leave(app, Returned(pp.value))

_do_decorator(app, c) ==
    IF c.doc_ui = TRUE THEN DoDecoratorDoc(app, c) ELSE DoDecoratorNoDoc(app, c)

(***************************************************************************)
(* scaffold.py: the decorators get, post, put, delete and patch applied to *)
(* a handler.  The result is the state left, the url rules left and the    *)
(* outcome: the wrapper of the handler, or the exception raised.           *)
(***************************************************************************)
Wrapper(func) == [wraps |-> func.name]

UrlRule(rule, method) == [rule |-> rule, methods |-> {method}]

\* what follows the call of _do_decorator, r being what it leaves
Decorated(rules, c, r) ==
    IF r.outcome.kind = "raise"
    THEN [left |-> r, url_map |-> rules]
    ELSE IF Len(r.outcome.value) # ScaffoldUnpack
    THEN [left |-> [r EXCEPT !.outcome = Raised("ValueError", "_do_decorator")],
          url_map |-> rules]
    ELSE [left |-> [r EXCEPT !.outcome = Returned(Wrapper(c.func))],
          url_map |-> rules \cup {UrlRule(c.rule, c.method)}]

decorator(app, rules, c) ==
    IF ~Accepts(DoDecoratorSig, ScaffoldDoDecoratorCall)
    THEN [left |-> Leave(app, Raised("TypeError", "_do_decorator")),
          url_map |-> rules]
    ELSE Decorated(rules, c, _do_decorator(app, c))

(***************************************************************************)
(* openapi.py: register_api and register_api_view.  A blueprint or a view  *)
(* is its tags, its paths and its components_schemas.                      *)
(***************************************************************************)
\* for tag in api.tags: if tag.name not in self.tag_names: append both
RegisterTags(tgs, names, api) == StoreTags(api.tags, tgs, names)

(***************************************************************************)
(* openapi.py: api_doc.  The JSON of a model leaves out the fields that    *)
(* are None (exclude_none).                                                *)
(***************************************************************************)
ValidationErrorResponseModel == <<"ValidationErrorResponseModel">>

ValidationErrorSchema == [of |-> ValidationErrorResponseModel, mode |-> "validation"]

ResponseJson(r) ==
    IF r.content = None THEN [description |-> r.description]
    ELSE [description |-> r.description, content |-> r.content[1]]

OperationFields == {"operationId", "tags", "parameters", "requestBody", "responses"}

OperationJson(op) ==
    [f \in {g \in OperationFields : op[g] # None} |->
        IF f = "responses"
        THEN [k \in DOMAIN op.responses[1] |-> ResponseJson(op.responses[1][k])]
        ELSE op[f][1]]

\* the response api_doc adds under validation_error_status
DefaultValidationResponse(status) ==
    [description |-> HTTP_STATUS[status],
     content |-> AppJson :>
         MediaType([type |-> "array", items |-> Ref(ValidationErrorResponseModel)])]

\* operation.get("responses") or {}
JsonResponses(operation) ==
    IF "responses" \in DOMAIN operation THEN operation.responses ELSE EmptyDict

SetResponses(operation, rs) ==
    [f \in DOMAIN operation \cup {"responses"} |->
        IF f = "responses" THEN rs ELSE operation[f]]

\* the body of the loop over the operations of a path item
AddValidationAlways(operation, status) ==
    SetResponses(operation,
                 Update(JsonResponses(operation),
                        status :> DefaultValidationResponse(status)))

AddValidationFixedKey(operation, status) ==
    LET rs == JsonResponses(operation)
    IN IF "422" \in DOMAIN rs /\ DOMAIN rs["422"] # {}
       THEN SetResponses(operation, rs)
       ELSE SetResponses(operation,
                         Update(rs, "422" :> DefaultValidationResponse("422")))

AddValidation(operation, status) ==
    LET rs == JsonResponses(operation)
    IN IF status \in DOMAIN rs /\ DOMAIN rs[status] # {}
       THEN SetResponses(operation, rs)
       ELSE SetResponses(operation,
                         Update(rs, status :> DefaultValidationResponse(status)))

\* the document api_doc builds
BuildSpecJson(ps, tgs, cs, status) ==
    LET doc == [openapi |-> "3.0.3",
                paths |-> [uri \in DOMAIN ps |->
                             [m \in DOMAIN ps[uri] |->
                                AddValidation(OperationJson(ps[uri][m]), status)]],
                components |-> [schemas |-> cs]]
    IN IF tgs = <<>> THEN doc ELSE doc @@ [tags |-> tgs]


(***************************************************************************)
(* The inputs: tags, declared responses, handlers, calls of the            *)
(* decorators, and blueprints and views with the routes registered on      *)
(* them.                                                                   *)
(***************************************************************************)
T1x == Tag("t1", "x")
T1y == Tag("t1", "y")
T2x == Tag("t2", "x")
T2y == Tag("t2", "y")

NoResponses == <<>>
Declares200 == <<<<"200", DeclModel(<<ModelA>>)>>>>
Declares422 == <<<<"422", DeclDict([description |-> "Custom"])>>>>
Declares400 == <<<<"400", DeclNone>>, <<"200", DeclModel(<<ModelDog, ModelCsv>>)>>>>

DeclaresA_B_ == <<<<"200", DeclModel(<<ModelA_B_, ModelN>>)>>>>

UriA == <<"/", "a">>
UriB == <<"/", "b">>
UriC == <<"/", "c">>
RuleA == <<"/", "a">>
RuleX == <<"/", "b", "/", "<", "i", ":", "x", ">">>

FuncF ==
    [name |-> <<"f">>,
     annotations |-> ("body" :> <<ModelDog, ModelCsv>>) @@ ("query" :> <<ModelAB>>)]
FuncG == [name |-> <<"g">>, annotations |-> ("raw" :> <<AppJson, TextCsv>>)]

FuncH == [name |-> <<"h">>, annotations |-> ("body" :> <<ModelAB>>)]

Call(rule, func, tgs, resps, operation_id, doc_ui, method) ==
    [rule |-> rule, func |-> func, tags |-> tgs, responses |-> resps,
     operation_id |-> operation_id, doc_ui |-> doc_ui, method |-> method]

Calls ==
    {Call(RuleA, FuncF, None, None, None, TRUE, "GET"),
     Call(RuleX, FuncG, Some(<<T1y, T2x>>), Some(Declares422), Some(<<"o", "p">>),
          TRUE, "POST"),
     Call(RuleX, FuncF, Some(<<T2y, T2x>>), Some(Declares200), Some(<<>>), TRUE, "PUT"),
     Call(RuleA, FuncG, Some(<<T1x>>), Some(Declares400), None, TRUE, "DELETE"),
     Call(RuleA, FuncF, Some(<<T1x, T1y>>), None, None, FALSE, "PATCH"),
     Call(RuleX, FuncG, None, Some(Declares200), Some(<<"o", "p">>), FALSE, "GET")}

\* an operation as a blueprint or a view records it for a route
RouteOperation(resps) ==
    get_responses(resps, EmptyDict,
                  [NewOperation EXCEPT !.tags = Some({"default"})])

\* the same for a route <<uri, method, responses, handler>>, whose parameters
\* are parsed before its responses
HandlerOperation(resps, func) ==
    LET pp == parse_parameters(func, EmptyDict,
                               [NewOperation EXCEPT !.tags = Some({"default"})], TRUE)
    IN get_responses(resps, pp.components_schemas, pp.operation)

RECURSIVE AddRoutes(_, _)
AddRoutes(api, routes) ==
    IF routes = <<>> THEN api
    ELSE LET route == Head(routes)
             r == IF Len(route) = 4 THEN HandlerOperation(route[3], route[4])
                  ELSE RouteOperation(route[3])
         IN AddRoutes([api EXCEPT
                         !.paths = parse_method(route[1], route[2], @, r.operation),
                         !.components_schemas = Update(@, r.components_schemas)],
                      Tail(routes))

Api(tgs, routes) ==
    AddRoutes([tags |-> tgs, paths |-> EmptyDict, components_schemas |-> EmptyDict],
              routes)

\* a view whose operation was given no responses at all
BareView ==
    [tags |-> <<T2y, T2x>>,
     paths |-> UriB :> ("get" :> NewOperation),
     components_schemas |-> EmptyDict]

Apis ==
    {Api(<<T1x>>, <<<<UriA, "GET", NoResponses>>>>),
     Api(<<T1y, T2x>>, <<<<UriA, "POST", Declares422>>, <<UriB, "GET", Declares200>>,
                         <<UriB, "PUT", Declares400>>,
                         <<UriB, "PATCH", Declares200, FuncH>>>>)}

ApiViews ==
    {BareView,
     Api(<<T2x, T1x>>, <<<<UriA, "GET", Declares400>>, <<UriA, "PATCH", Declares422>>,
                      <<UriC, "DELETE", DeclaresA_B_>>>>)}

AppResponses == {NoResponses, Declares422, Declares200}
ValidationErrorStatuses == {"422", "400"}

(***************************************************************************)
(* The application.                                                        *)
(***************************************************************************)
App ==
    [responses |-> responses, paths |-> paths, tags |-> tags,
     tag_names |-> tag_names, components_schemas |-> components_schemas]

\* OpenAPI.__init__ (with doc_ui=False: no documentation routes)
Init ==
    /\ responses \in AppResponses
    /\ validation_error_status \in ValidationErrorStatuses
    /\ paths = EmptyDict
    /\ tags = <<>>
    /\ tag_names = <<>>
    /\ components_schemas = EmptyDict
    /\ spec_json = EmptyDict
    /\ url_map = {}
    /\ ret = [op |-> "__init__"]

Leaves(left) ==
    /\ paths' = left.paths
    /\ tags' = left.tags
    /\ tag_names' = left.tag_names
    /\ components_schemas' = left.components_schemas

\* @app.get(rule, ...) and the like applied to a handler
Decorate ==
    \E c \in Calls :
        LET r == decorator(App, url_map, c)
        IN /\ Leaves(r.left)
           /\ url_map' = r.url_map
           /\ ret' = [op |-> "decorator", call |-> c, outcome |-> r.left.outcome]
           /\ UNCHANGED <<responses, validation_error_status, spec_json>>

\* app._do_decorator(rule, func, ...) called with the arguments it declares
DoDecorator ==
    \E c \in Calls :
        LET r == _do_decorator(App, c)
        IN /\ Leaves(r)
           /\ ret' = [op |-> "_do_decorator", call |-> c, outcome |-> r.outcome]
           /\ UNCHANGED <<responses, validation_error_status, spec_json, url_map>>

RegisterApi ==
    \E api \in Apis :
        LET stored == RegisterTags(tags, tag_names, api)
        IN /\ tags' = stored.tags
           /\ tag_names' = stored.tag_names
           /\ paths' = Update(paths, api.paths)
           /\ components_schemas' = Update(components_schemas, api.components_schemas)
           /\ ret' = [op |-> "register_api", api |-> api]
           /\ UNCHANGED <<responses, validation_error_status, spec_json, url_map>>

RegisterApiView ==
    \E api_view \in ApiViews :
        LET stored == RegisterTags(tags, tag_names, api_view)
        IN /\ tags' = stored.tags
           /\ tag_names' = stored.tag_names
           /\ paths' = Update(paths, api_view.paths)
           /\ components_schemas' =
                  Update(components_schemas, api_view.components_schemas)
           /\ ret' = [op |-> "register_api_view", api |-> api_view]
           /\ UNCHANGED <<responses, validation_error_status, spec_json, url_map>>

\* the api_doc property
ApiDoc ==
    /\ IF DOMAIN spec_json # {}
       THEN UNCHANGED <<spec_json, components_schemas>>
       ELSE LET cs == Update(components_schemas,
                             ValidationErrorResponseModel :> ValidationErrorSchema)
            IN /\ components_schemas' = cs
               /\ spec_json' = BuildSpecJson(paths, tags, cs, validation_error_status)
    /\ ret' = [op |-> "api_doc", cached |-> DOMAIN spec_json # {}]
    /\ UNCHANGED <<responses, validation_error_status, paths, tags, tag_names,
                   url_map>>

Next == Decorate \/ DoDecorator \/ RegisterApi \/ RegisterApiView \/ ApiDoc

Spec == Init /\ [][Next]_vars


(***************************************************************************)
(* The pure functions, each applied once to inputs drawn by the initial    *)
(* state.                                                                  *)
(***************************************************************************)
InitApp ==
    /\ responses = NoResponses
    /\ validation_error_status = "422"
    /\ paths = EmptyDict
    /\ tags = <<>>
    /\ tag_names = <<>>
    /\ components_schemas = EmptyDict
    /\ spec_json = EmptyDict
    /\ url_map = {}

\* the rules every version of werkzeug accepts: a ">" of the static text is
\* followed, somewhere, by a variable
AcceptedRule(ps) ==
    \A i \in DOMAIN ps :
        (ps[i].kind = "static" /\ ps[i].text = <<">">>) =>
            \E j \in DOMAIN ps : j > i /\ ps[j].kind = "var"

\* the conversion of a rule, by _do_decorator and by parse_rule
InitRule ==
    /\ InitApp
    /\ ret \in {[op |-> "await", parts |-> ps] :
                  ps \in {qs \in SeqsUpTo(RuleParts, MaxSegs) : AcceptedRule(qs)}}

ConvertRules ==
    /\ ret.op = "await"
    /\ ret' = [op |-> "converted", parts |-> ret.parts,
               rule |-> RenderRule(ret.parts),
               uri |-> DoDecoratorUri(RenderRule(ret.parts)),
               parsed |-> parse_rule(RenderRule(ret.parts), None)]
    /\ UNCHANGED appVars

SpecRule == InitRule /\ [][ConvertRules]_vars

\* two operation ids
HandlerNames == SeqsUpTo({"f", "_"}, MaxNameLen) \ {<<>>}
IdPaths == {<<"/">> \o t : t \in SeqsUpTo({"a", "_", "-"}, MaxPathChars)}
IdMethods == {"GET", "POST"}
Triples ==
    {[name |-> n, path |-> q, method |-> m] :
        n \in HandlerNames, q \in IdPaths, m \in IdMethods}

InitOpId ==
    /\ InitApp
    /\ ret \in {[op |-> "await", a |-> t, b |-> u] : t \in Triples, u \in Triples}

OperationIds ==
    /\ ret.op = "await"
    /\ ret' = [op |-> "ids", a |-> ret.a, b |-> ret.b,
               id_a |-> get_operation_id_for_path(ret.a.name, ret.a.path,
                                                  MethodChars(ret.a.method)),
               id_b |-> get_operation_id_for_path(ret.b.name, ret.b.path,
                                                  MethodChars(ret.b.method))]
    /\ UNCHANGED appVars

SpecOpId == InitOpId /\ [][OperationIds]_vars

\* parse_body of a model or of a union of distinct models
Distinct(ms) == \A i, j \in DOMAIN ms : ms[i] = ms[j] => i = j
Bodies == {ms \in SeqsUpTo(Models, MaxUnion) : ms # <<>> /\ Distinct(ms)}

InitBody ==
    /\ InitApp
    /\ ret \in {[op |-> "await", body |-> b] : b \in Bodies}

ParseBodyCall ==
    /\ ret.op = "await"
    /\ ret' = [op |-> "parse_body", body |-> ret.body,
               content |-> parse_body(ret.body).content,
               components_schemas |-> parse_body(ret.body).components_schemas]
    /\ UNCHANGED appVars

SpecBody == InitBody /\ [][ParseBodyCall]_vars

\* get_responses of one status key declared as a model or a union of distinct
\* models: the calls of _parse_response in turn, then the return
ResponseKeys == {"200", "299"}

InitResponses ==
    /\ InitApp
    /\ ret \in {[op |-> "loop", key |-> k, union |-> u, done |-> 0,
                  acc |-> [responses |-> EmptyDict, schemas |-> EmptyDict]] :
                   k \in ResponseKeys, u \in Bodies}

\* for model in get_args(response_model): _parse_response(key, model)
ParseResponseCall ==
    /\ ret.op = "loop"
    /\ ret.done < Len(ret.union)
    /\ ret' = [ret EXCEPT !.done = @ + 1,
                          !.acc = _parse_response(@, ret.key, ret.union[ret.done + 1])]
    /\ UNCHANGED appVars

\* components_schemas.update(**_schemas); operation.responses = _responses
GetResponsesReturn ==
    /\ ret.op = "loop"
    /\ ret.done = Len(ret.union)
    /\ LET r == get_responses(<<<<ret.key, DeclModel(ret.union)>>>>, EmptyDict,
                              NewOperation)
       IN ret' = [op |-> "get_responses", key |-> ret.key, union |-> ret.union,
                  acc |-> ret.acc,
                  responses |-> r.operation.responses[1],
                  components_schemas |-> r.components_schemas]
    /\ UNCHANGED appVars

SpecResponses == InitResponses /\ [][ParseResponseCall \/ GetResponsesReturn]_vars

(***************************************************************************)
(* openapi.py: OpenAPI.__init__ and _init_doc.  a is the arguments of the  *)
(* constructor; a url is the sequence of its slashes and words; a          *)
(* blueprint is its url_prefix and the url rules added to it, in order.    *)
(***************************************************************************)
\* str.strip("/")
Strip(s) == LStripSlash(RStripSlash(s))

\* {swagger_url.strip("/"): ..., redoc_url.strip("/"): ...,
\*  rapidoc_url.strip("/"): ..., **self.ui_templates}
BuiltinsTemplates(a) ==
    OUpdate(<<>>,
            <<<<Strip(a.swagger_url), "swagger_html_string">>,
              <<Strip(a.redoc_url), "redoc_html_string">>,
              <<Strip(a.rapidoc_url), "rapidoc_html_string">>>>
                \o (IF a.ui_templates = None THEN <<>> ELSE a.ui_templates[1]))

TemplateRuleLateBound(a, items, i) ==
    [rule |-> <<"/">> \o items[i][1], endpoint |-> items[i][1],
     view |-> [source |-> items[Len(items)][2],
               api_doc_url |-> LStripSlash(a.api_doc_url)]]

\* the url rule of one item of builtins_templates, its view rendering the
\* item's value (lambda source=value)
TemplateRule(a, items, i) ==
    [rule |-> <<"/">> \o items[i][1], endpoint |-> items[i][1],
     view |-> [source |-> items[i][2], api_doc_url |-> LStripSlash(a.api_doc_url)]]

\* the blueprint _init_doc registers
_init_doc(a) ==
    LET items == BuiltinsTemplates(a)
    IN [name |-> "openapi", url_prefix |-> a.doc_prefix,
        rules |->
            <<[rule |-> a.api_doc_url, endpoint |-> <<"api_doc">>,
               view |-> [source |-> "api_doc"]]>>
                \o [i \in DOMAIN items |-> TemplateRule(a, items, i)]
                \o <<[rule |-> <<"/">>, endpoint |-> <<"openapi">>,
                      view |-> [source |-> "openapi_html_string",
                                swagger_url |-> LStripSlash(a.swagger_url),
                                redoc_url |-> LStripSlash(a.redoc_url),
                                rapidoc_url |-> LStripSlash(a.rapidoc_url)]]>>]

\* the arguments an application is built with
DocArgs ==
    [doc_ui : BOOLEAN,
     doc_prefix : {<<"/", "openapi">>, <<"/", "docs", "/">>},
     api_doc_url : {<<"/", "openapi.json">>},
     swagger_url : {<<"/", "swagger">>, <<"swagger", "/">>, <<"/", "redoc">>},
     redoc_url : {<<"/", "redoc">>, <<"/", "docs", "/", "redoc", "/">>},
     rapidoc_url : {<<"/", "rapidoc">>, <<"/", "redoc">>},
     ui_templates : {None,
                     Some(<<<<<<"redoc">>, "custom_redoc">>>>),
                     Some(<<<<<<"elements">>, "elements">>,
                            <<<<"swagger">>, "custom_swagger">>>>)}]

InitDoc ==
    /\ InitApp
    /\ ret \in {[op |-> "await", args |-> a] : a \in DocArgs}

\* if doc_ui: self._init_doc()
__init__ ==
    /\ ret.op = "await"
    /\ ret' = [op |-> "__init__", args |-> ret.args,
               blueprints |-> IF ret.args.doc_ui THEN <<_init_doc(ret.args)>>
                              ELSE <<>>]
    /\ UNCHANGED appVars

SpecDoc == InitDoc /\ [][__init__]_vars


(***************************************************************************)
(* The claims.                                                             *)
(***************************************************************************)
\* the PathItem slot of a call's method under its converted uri, if any
Documented(c) ==
    IF DoDecoratorUri(c.rule) \in DOMAIN paths
       /\ MethodField(c.method) \in DOMAIN paths[DoDecoratorUri(c.rule)]
    THEN Some(paths[DoDecoratorUri(c.rule)][MethodField(c.method)])
    ELSE None

\* C1: applying the decorator of get, post, put, delete or patch (doc_ui=True)
\* to a handler completes without error, records the handler's operation in
\* paths under the converted uri in the slot of the method, registers the url
\* rule for exactly that one method, and returns the wrapped handler.
C1_DecoratorRegistersRoute ==
    (ret.op = "decorator" /\ ret.call.doc_ui) =>
        /\ ret.outcome = Returned(Wrapper(ret.call.func))
        /\ Documented(ret.call) # None
        /\ \E r \in url_map :
              r.rule = ret.call.rule /\ r.methods = {ret.call.method}

\* the operations of the document, as <<uri, field>>
PathItemFields == {"get", "post", "put", "patch", "delete"}

DocOperations ==
    IF DOMAIN spec_json = {} THEN {}
    ELSE {x \in (DOMAIN spec_json.paths) \X PathItemFields :
             x[2] \in DOMAIN spec_json.paths[x[1]]}

\* the call of api_doc that has just built the document from paths
JustBuilt == ret.op = "api_doc" /\ ~ret.cached

\* the responses an operation of paths declares
Declared(uri, m) ==
    IF paths[uri][m].responses = None THEN EmptyDict ELSE paths[uri][m].responses[1]

\* C2: in the document of api_doc every operation of every path has a response
\* under validation_error_status; an operation that declares none for that
\* status gets the application/json response whose schema is an array of
\* references to ValidationErrorResponseModel and whose description is the
\* HTTP phrase of the status.
C2_ValidationErrorResponse ==
    /\ \A x \in DocOperations :
          /\ "responses" \in DOMAIN spec_json.paths[x[1]][x[2]]
          /\ validation_error_status
                 \in DOMAIN spec_json.paths[x[1]][x[2]].responses
    /\ JustBuilt =>
          /\ DOMAIN spec_json.paths = DOMAIN paths
          /\ \A uri \in DOMAIN paths :
                /\ DOMAIN spec_json.paths[uri] = DOMAIN paths[uri]
                /\ \A m \in DOMAIN paths[uri] :
                      validation_error_status \notin DOMAIN Declared(uri, m) =>
                          spec_json.paths[uri][m].responses[validation_error_status]
                              = [description |-> HTTP_STATUS[validation_error_status],
                                 content |-> AppJson :>
                                    [schema |->
                                       [type |-> "array",
                                        items |-> [ref |-> ValidationErrorResponseModel]]]]

C2_Witness ==
    /\ JustBuilt
    /\ validation_error_status = "400"
    /\ \E uri \in DOMAIN paths : \E m \in DOMAIN paths[uri] :
          /\ "422" \in DOMAIN Declared(uri, m)
          /\ "400" \notin DOMAIN Declared(uri, m)
    /\ \E uri \in DOMAIN paths : \E m \in DOMAIN paths[uri] :
          paths[uri][m].responses = None

\* C3: an operation that declares a response under validation_error_status
\* keeps that response exactly as declared in the document of api_doc.
C3_DeclaredValidationResponseKept ==
    JustBuilt =>
        \A uri \in DOMAIN paths : \A m \in DOMAIN paths[uri] :
            validation_error_status \in DOMAIN Declared(uri, m) =>
                /\ uri \in DOMAIN spec_json.paths
                /\ m \in DOMAIN spec_json.paths[uri]
                /\ spec_json.paths[uri][m].responses[validation_error_status]
                       = ResponseJson(Declared(uri, m)[validation_error_status])

C3_Witness ==
    /\ JustBuilt
    /\ \E uri \in DOMAIN paths : \E m \in DOMAIN paths[uri] :
          /\ validation_error_status \in DOMAIN Declared(uri, m)
          /\ ResponseJson(Declared(uri, m)[validation_error_status])
                 # DefaultValidationResponse(validation_error_status)

\* C4: tag_names holds no name twice, and tags and tag_names have the same
\* length with tags[i].name = tag_names[i] for every i.
C4_TagsMatchTagNames ==
    /\ \A i, j \in DOMAIN tag_names : tag_names[i] = tag_names[j] => i = j
    /\ Len(tags) = Len(tag_names)
    /\ \A i \in DOMAIN tags : tags[i].name = tag_names[i]

\* a tag was offered whose name was stored with another tag, by each of the
\* three operations in turn
C4_Witness ==
    /\ Len(tag_names) = 2
    /\ \/ /\ ret.op = "_do_decorator" /\ ret.call.doc_ui
          /\ \E i \in DOMAIN NewTags(ret.call) :
                NewTags(ret.call)[i] \notin Range(tags)
       \/ /\ ret.op \in {"register_api", "register_api_view"}
          /\ \E i \in DOMAIN ret.api.tags : ret.api.tags[i] \notin Range(tags)

\* C5: a route registered with doc_ui=False leaves paths, tags, tag_names and
\* components_schemas unchanged, and _do_decorator returns the model types of
\* the handler's header, cookie, path, query, form and body annotations.
C5_NoDocReturnsModels ==
    [][(ret'.op = "_do_decorator" /\ ~ret'.call.doc_ui) =>
          /\ UNCHANGED <<paths, tags, tag_names, components_schemas>>
          /\ ret'.outcome =
                 Returned(<<Annotation(ret'.call.func, "header"),
                            Annotation(ret'.call.func, "cookie"),
                            Annotation(ret'.call.func, "path"),
                            Annotation(ret'.call.func, "query"),
                            Annotation(ret'.call.func, "form"),
                            Annotation(ret'.call.func, "body")>>)]_vars

\* the responses get_responses documents for the declarations ds
DocumentedFor(ds) ==
    get_responses(ds, EmptyDict, NewOperation).operation.responses[1]

\* C6: the responses documented for a route are the application's responses
\* updated by the route's: a status declared by both is documented as the
\* route declares it, one declared by the application alone as the
\* application declares it; registering routes never changes the
\* application's responses.
C6_RouteResponsesCombined ==
    (ret.op \in {"decorator", "_do_decorator"} /\ ret.call.doc_ui) =>
        /\ Documented(ret.call) # None
        /\ Documented(ret.call)[1].responses # None
        /\ LET route == IF ret.call.responses = None THEN <<>>
                        ELSE ret.call.responses[1]
               documented == Documented(ret.call)[1].responses[1]
           IN /\ DOMAIN documented = OKeys(responses) \cup OKeys(route)
              /\ \A k \in OKeys(route) : documented[k] = DocumentedFor(route)[k]
              /\ \A k \in OKeys(responses) \ OKeys(route) :
                    documented[k] = DocumentedFor(responses)[k]

\* the second sentence of C6 alone
C6_AppResponsesKept == [][responses' = responses]_vars

\* C7: converting a rule replaces every <name> and every <converter:name> by
\* {name} and leaves every other character unchanged, and _do_decorator and
\* parse_rule convert a rule alike.
ExpectedPart(part) ==
    IF part.kind = "static" THEN part.text ELSE <<"{">> \o part.name \o <<"}">>

ExpectedUri(ps) == <<"/">> \o Concat([i \in DOMAIN ps |-> ExpectedPart(ps[i])])

C7_RuleConversion ==
    ret.op = "converted" =>
        /\ ret.uri = ExpectedUri(ret.parts)
        /\ ret.parsed = ret.uri

\* the second half of C7 alone
C7_SameConversion == ret.op = "converted" => ret.parsed = ret.uri

\* C8: two calls of get_operation_id_for_path with different triples of name,
\* path and method never return the same operation id.
C8_OperationIdUnique ==
    (ret.op = "ids" /\ ret.a # ret.b) => ret.id_a # ret.id_b

\* C9: the operationId of a documented operation is the operation_id given to
\* the decorator when one is given, and otherwise the handler name followed by
\* the rule with every non-word character replaced by "_", then "_" and the
\* lower-cased method.
C9_OperationId ==
    (ret.op \in {"decorator", "_do_decorator"} /\ ret.call.doc_ui) =>
        /\ Documented(ret.call) # None
        /\ Documented(ret.call)[1].operationId =
              Some(IF ret.call.operation_id # None
                   THEN ret.call.operation_id[1]
                   ELSE SubChars(ret.call.func.name \o ret.call.rule, IsWord)
                            \o <<"_">> \o Lower(MethodChars(ret.call.method)))

\* C10: parse_body of a union has one content entry for each distinct content
\* type of the members, the entry of the last member of that content type: a
\* member whose content type is not application JSON gives the schema of its
\* content_schema ({type: string} by default) and adds no component schema, an
\* application-JSON member gives a $ref to the component schema stored under
\* its normalized title.
ContentTypeOf(model) == GetOr(model.openapi_extra, "content_type", AppJson)

LastOfType(body, i) ==
    \A j \in DOMAIN body : ContentTypeOf(body[j]) = ContentTypeOf(body[i]) => j <= i

NormalizedTitle(model) ==
    normalize_name(IF model.title # <<>> THEN model.title ELSE model.name)

C10_ParseBodyUnion ==
    ret.op = "parse_body" =>
        /\ DOMAIN ret.content = {ContentTypeOf(ret.body[i]) : i \in DOMAIN ret.body}
        /\ \A i \in DOMAIN ret.body :
              LastOfType(ret.body, i) =>
                  IF is_application_json(ContentTypeOf(ret.body[i]))
                  THEN /\ ret.content[ContentTypeOf(ret.body[i])]
                              = [schema |-> [ref |-> NormalizedTitle(ret.body[i])]]
                       /\ NormalizedTitle(ret.body[i]) \in DOMAIN ret.components_schemas
                  ELSE ret.content[ContentTypeOf(ret.body[i])]
                           = [schema |-> GetOr(ret.body[i].openapi_extra,
                                               "content_schema", [type |-> "string"])]
        /\ DOMAIN ret.components_schemas =
              UNION {{NormalizedTitle(ret.body[i])} \cup Range(ret.body[i].defs) :
                        i \in {j \in DOMAIN ret.body :
                                  is_application_json(ContentTypeOf(ret.body[j]))}}

C10_Witness ==
    /\ ret.op = "parse_body"
    /\ Len(ret.body) = 3
    /\ \E i, j \in DOMAIN ret.body :
          /\ i < j
          /\ ContentTypeOf(ret.body[i]) = ContentTypeOf(ret.body[j])
          /\ ~is_application_json(ContentTypeOf(ret.body[i]))
          /\ "content_schema" \in DOMAIN ret.body[j].openapi_extra
    /\ \E i \in DOMAIN ret.body :
          /\ is_application_json(ContentTypeOf(ret.body[i]))
          /\ ContentTypeOf(ret.body[i]) # AppJson

\* C11: for a status key declared as a union of models, get_responses documents
\* one Response under that key whose content has exactly one entry for each
\* distinct content type of the members; each call of _parse_response for a
\* later member keeps the description recorded and the entries recorded for
\* the content types other than its own.
C11_ResponseUnion ==
    [][/\ (ret.op = "loop" /\ ret'.op = "loop" /\ ret.done > 0) =>
            /\ DOMAIN ret'.acc.responses = {ret.key}
            /\ ret'.acc.responses[ret.key].description
                   = ret.acc.responses[ret.key].description
            /\ \A ct \in DOMAIN ret.acc.responses[ret.key].content[1] :
                   /\ ct \in DOMAIN ret'.acc.responses[ret.key].content[1]
                   /\ ct # ContentTypeOf(ret.union[ret'.done]) =>
                         ret'.acc.responses[ret.key].content[1][ct]
                             = ret.acc.responses[ret.key].content[1][ct]
       /\ ret'.op = "get_responses" =>
            /\ DOMAIN ret'.responses = {ret'.key}
            /\ ret'.responses = ret'.acc.responses
            /\ ret'.responses[ret'.key].description = GetOr(HTTP_STATUS, ret'.key, "")
            /\ ret'.responses[ret'.key].content # None
            /\ DOMAIN ret'.responses[ret'.key].content[1]
                   = {ContentTypeOf(ret'.union[i]) : i \in DOMAIN ret'.union}]_vars

C11_Witness ==
    /\ ret.op = "get_responses"
    /\ ret.key = "200"
    /\ Len(ret.union) = 3
    /\ DOMAIN ret.responses["200"].content[1] = {AppJson, TextCsv}
    /\ ContentTypeOf(ret.union[1]) = AppJson
    /\ ContentTypeOf(ret.union[3]) = TextCsv

\* the schema names the $refs of a content, of an operation and of paths name
ContentRefs(content) ==
    {content[ct].schema.ref :
        ct \in {c \in DOMAIN content : "ref" \in DOMAIN content[c].schema}}

OperationRefs(op) ==
    (IF op.requestBody = None THEN {} ELSE ContentRefs(op.requestBody[1].content))
        \cup (IF op.responses = None THEN {}
              ELSE UNION {IF op.responses[1][k].content = None THEN {}
                          ELSE ContentRefs(op.responses[1][k].content[1]) :
                             k \in DOMAIN op.responses[1]})

PathsRefs(ps) ==
    UNION {UNION {OperationRefs(ps[uri][m]) : m \in DOMAIN ps[uri]} : uri \in DOMAIN ps}

\* C12: components_schemas is keyed by normalized schema names, one schema a
\* name; registering a blueprint or a view stores each of its schemas under
\* its name, replacing the schema an earlier registration stored under that
\* name and keeping the schemas of the other names, and every $ref of paths
\* names a stored schema, so that it resolves to the schema stored last.
C12_SchemasLastRegistered ==
    [][/\ \A k \in DOMAIN components_schemas' \ {ValidationErrorResponseModel} :
              normalize_name(k) = k
       /\ ret'.op \in {"register_api", "register_api_view"} =>
              /\ DOMAIN components_schemas' =
                     DOMAIN components_schemas \cup DOMAIN ret'.api.components_schemas
              /\ \A k \in DOMAIN ret'.api.components_schemas :
                     components_schemas'[k] = ret'.api.components_schemas[k]
              /\ \A k \in DOMAIN components_schemas \ DOMAIN ret'.api.components_schemas :
                     components_schemas'[k] = components_schemas[k]
              /\ PathsRefs(ret'.api.paths) \subseteq DOMAIN ret'.api.components_schemas
       /\ ret'.op \in {"decorator", "_do_decorator"} =>
              components_schemas' = components_schemas
       /\ PathsRefs(paths') \subseteq DOMAIN components_schemas']_vars

\* a view whose response model is named A_B_ is registered after a blueprint
\* whose request model A[B] is documented under the same name
C12_Witness ==
    /\ ret.op = "register_api_view"
    /\ <<"A", "_", "B", "_">> \in DOMAIN ret.api.components_schemas
    /\ components_schemas[<<"A", "_", "B", "_">>].of = ModelA_B_.name
    /\ UriB \in DOMAIN paths
    /\ "patch" \in DOMAIN paths[UriB]
    /\ paths[UriB]["patch"].requestBody = Some(RequestBody(AppJson :> MediaType(Ref(<<"A", "_", "B", "_">>))))
    /\ components_schemas[<<"N">>].of = ModelN.name

\* C13: an application built with doc_ui=True registers one blueprint under
\* doc_prefix whose url rules are the specification at api_doc_url, the home
\* page at "/", and one page for each of the stripped swagger_url, redoc_url
\* and rapidoc_url and each key of ui_templates, and no other; the page of a
\* key of ui_templates renders the template given for it, in place of the
\* built-in one when the key is that of a built-in UI, and the page of any
\* other key a built-in template of that key.  An application built with
\* doc_ui=False registers no blueprint.
UiTemplates(a) == IF a.ui_templates = None THEN <<>> ELSE a.ui_templates[1]

BuiltinSources(a, key) ==
    {x[2] : x \in {y \in {<<a.swagger_url, "swagger_html_string">>,
                          <<a.redoc_url, "redoc_html_string">>,
                          <<a.rapidoc_url, "rapidoc_html_string">>} :
                     LStripSlash(RStripSlash(y[1])) = key}}

PageKeys(a) ==
    {LStripSlash(RStripSlash(u)) : u \in {a.swagger_url, a.redoc_url, a.rapidoc_url}}
        \cup OKeys(UiTemplates(a))

C13_DocRoutes ==
    ret.op = "__init__" =>
        IF ret.args.doc_ui
        THEN /\ Len(ret.blueprints) = 1
             /\ ret.blueprints[1].url_prefix = ret.args.doc_prefix
             /\ LET rules == ret.blueprints[1].rules
                    a == ret.args
                IN /\ Cardinality({i \in DOMAIN rules :
                                      /\ rules[i].rule = a.api_doc_url
                                      /\ rules[i].view.source = "api_doc"}) = 1
                   /\ Cardinality({i \in DOMAIN rules :
                                      /\ rules[i].rule = <<"/">>
                                      /\ rules[i].view.source = "openapi_html_string"}) = 1
                   /\ \A key \in PageKeys(a) :
                         /\ Cardinality({i \in DOMAIN rules :
                                            rules[i].rule = <<"/">> \o key}) = 1
                         /\ \A i \in DOMAIN rules :
                               rules[i].rule = <<"/">> \o key =>
                                   IF key \in OKeys(UiTemplates(a))
                                   THEN <<key, rules[i].view.source>>
                                            \in Range(UiTemplates(a))
                                   ELSE rules[i].view.source \in BuiltinSources(a, key)
                   /\ Len(rules) = Cardinality(PageKeys(a)) + 2
        ELSE ret.blueprints = <<>>

C13_Witness ==
    /\ ret.op = "__init__"
    /\ ret.args.doc_ui
    /\ ret.args.swagger_url = <<"swagger", "/">>
    /\ OKeys(UiTemplates(ret.args)) = {<<"elements">>, <<"swagger">>}
    /\ \E i \in DOMAIN ret.blueprints[1].rules :
          /\ ret.blueprints[1].rules[i].rule = <<"/", "swagger">>
          /\ ret.blueprints[1].rules[i].view.source = "custom_swagger"
    /\ \E i \in DOMAIN ret.blueprints[1].rules :
          /\ ret.blueprints[1].rules[i].rule = <<"/", "elements">>
          /\ ret.blueprints[1].rules[i].view.source = "elements"


====
